---- MODULE Spec2Model ----
(***************************************************************************)
(* Model of the payment-reconciliation core of titan-vps.                  *)
(*                                                                         *)
(*   src/node/transaction/manager.go  Manager: the Chain Watcher           *)
(*       (watchTransactions), the request loop (subscribeEvents),          *)
(*       CheckMessage, Mint and Transfer.                                  *)
(*   src/api/types/basis.go           the record types and their states.   *)
(*                                                                         *)
(* The ledger (chain node), the event bus and the callers are the          *)
(* environment.  The Reconciler that applies transfer events to records    *)
(* is not part of the sources at hand; it is modelled from the design      *)
(* document (spec.md, sections 3, 4.4 and 8).                              *)
(***************************************************************************)
EXTENDS Integers, Sequences, FiniteSets, TLC

\* ------------------------------------------------------------------ bounds
\* Operations the environment starts in one run: events on chain (transfers,
\* confirmations of submitted transactions, reorganisations), outages of the
\* node, messages published on the transfer-request topic, direct calls of
\* Mint, Transfer and CheckMessage.
MaxOps == 2

\* ----------------------------------------------------------------- amounts
\* Amounts are *big.Int in the code and unsigned 256-bit on chain.  TLC's
\* integers are 32 bits wide, so an integer n is held as the pair
\*     [q |-> n \div 2^63, r |-> n % 2^63]
\* which is exact: two pairs are equal iff the integers are.  An int64 is a
\* pair with q \in {-1, 0}.
Num(q, r) == [q |-> q, r |-> r]

Zero == Num(0, 0)

\* The amounts a transfer on chain carries here: 1, 2^63 and 2^63 + 1.
ChainAmounts == { Num(0, 1), Num(1, 0), Num(1, 1) }

\* big.Int.Int64 of a non-negative x: the low 64 bits of x read as a two's
\* complement int64.  Bit 63 of x is the parity of q.
Int64(x) == Num(IF x.q % 2 = 1 THEN -1 ELSE 0, x.r)

\* The decimal strings callers pass as amounts, and big.Int.SetString(s, 10)
\* on them.
ValueStrs == { "0", "1" }

SetString(s) ==
  CASE s = "0" -> Num(0, 0)
    [] s = "1" -> Num(0, 1)
    [] s = "9223372036854775808" -> Num(1, 0)

\* The strings that are no base-10 integer: empty, no digit, trailing text.
BadStrs == { "", "x", "1x" }

\* The bool SetString returns, which Mint and Transfer do not look at.
SetStringOk(s) == s \notin BadStrs

\* What `amount` holds after amount.SetString(s, 10): the number s denotes,
\* and an undefined value when s denotes none (math/big: "If SetString fails,
\* the value of z is undefined"): here zero or the value of the leading digit.
Amounts(s) == IF SetStringOk(s) THEN {SetString(s)} ELSE {Zero, Num(0, 1)}

\* --------------------------------------------------------------- addresses
UserAddrs == { "0xU1" }
PayAddr == "0xAA"
RechargeAddr == "0xBB"
ToAddrs == { PayAddr, RechargeAddr }
\* The sender of a mint is the zero address; the sender of a transfer is the
\* address of the service's key.
ZeroAddr == "0x00"
ServiceAddr == "0xSV"

\* ------------------------------------------------------------ transactions
\* Transaction hashes: <<"tx", n>> is a transfer made by a user on chain,
\* <<"out", n>> the transaction submitted by the n-th call of Mint/Transfer.
UserTx(n) == <<"tx", n>>
NoHash == <<"none", 0>>
\* A transaction that was executed with a non-zero exit code: it has a
\* receipt and moved no value.
FailedTx == <<"bad", 1>>
NoTx == [from |-> "", to |-> "", value |-> Zero, removed |-> FALSE]

VARIABLES
  \* ---- environment: the ledger
  ledgerUp,   \* the chain node is reachable
  ops,        \* operations the environment has started
  chain,      \* hash -> the transfer it made, for the transactions on chain
  stream,     \* raw transfers queued on the watcher's live subscription
  \* ---- Manager.watchTransactions
  wpc,        \* "dial", "newabi", "watch", "loop", "returned"
  wret,       \* the error it returned with, "" while it runs
  sub,        \* the subscription held in `sub`: "none", "live", "failed"
  recvLog,    \* raw transfers received from sink, in order
  unreleased, \* subscriptions WatchTransfer returned and nobody unsubscribed
  \* ---- the bus (pubsub.PubSub)
  watchBus,   \* messages published on the transfer-watch topic, in order
  reqChan,    \* messages delivered to subTransfer and not yet received
  repBus,     \* messages published on the transfer-response topic, in order
  nreq,       \* messages published on the transfer-request topic
  dropped,    \* those of them published while the topic had no subscriber
  \* ---- Manager.subscribeEvents
  lpc,        \* "sub", "recv", "mint", "pub"
  ltr,        \* tr, the request being served
  lres,       \* hash, err of its Mint call
  consumed,   \* the requests received from subTransfer, in order
  inflight,   \* calls of Mint started by the loop that have not returned
  \* ---- Mint / Transfer / CheckMessage
  calls,      \* every call of Mint or Transfer, in order
  submitted,  \* every transaction handed to the ledger, in order
  cret,       \* the last call of CheckMessage: its argument and the error returned
  \* ---- the process
  crashed,    \* a goroutine panicked: the process is gone
  \* ---- the Reconciler
  orders,     \* order id -> OrderRecord
  recharges,  \* recharge id -> RechargeRecord
  flagged,    \* ids of the transfers set aside for manual review
  rpos        \* transfer-watch messages the Reconciler has consumed

ledgerVars == <<ledgerUp, chain, stream>>
watcherVars == <<wpc, wret, sub, recvLog, unreleased>>
busVars == <<watchBus, reqChan, repBus, nreq, dropped>>
loopVars == <<lpc, ltr, lres, consumed, inflight>>
callVars == <<calls, submitted, cret>>
recVars == <<orders, recharges, flagged, rpos>>

vars == <<ops, ledgerVars, watcherVars, busVars, loopVars, callVars, crashed, recVars>>

\* ---------------------------------------------------------------- messages
\* types.FvmTransferWatch as the watcher and CheckMessage build it.  `by` is
\* not a field of the message: it records who published it.
FvmTransferWatch(id, from, to, value, by) ==
  [ID |-> id, From |-> from, To |-> to, Value |-> value, by |-> by]

\* types.FvmTransferReq, and any other payload published on the topic.
FvmTransferReq(id, to, value) ==
  [kind |-> "req", ID |-> id, To |-> to, Value |-> value]

OtherPayload == [kind |-> "other", ID |-> 0, To |-> "", Value |-> ""]

FvmTransferRep(id, hash, msg) == [ID |-> id, TxHash |-> hash, Msg |-> msg]

NoReq == FvmTransferReq(0, "", "")
NoRes == [hash |-> NoHash, err |-> ""]
NoRet == [tx |-> NoHash, err |-> ""]

\* A raw transfer as the stream hands it to the watcher (fvm.AbiTransfer):
\* tr.Raw.TxHash, tr.From, tr.To, tr.Value, tr.Raw.Removed.
Raw(id, t, removed) ==
  [id |-> id, from |-> t.from, to |-> t.to, value |-> t.value, removed |-> removed]

\* ------------------------------------------------------------- Mint, Transfer
\* The steps of Mint that can fail, in the order of the code; f is the first
\* step that fails, 0 when none does.
MintSteps == <<"Dial err", "NewAbi err", "HexToECDSA err", "NetworkID err", "Mint err">>
TransferSteps == <<"Dial err", "HexToECDSA err", "NewAbi err", "NetworkID err", "Transfer err">>

StepOf(steps, name) == CHOOSE i \in 1..Len(steps) : steps[i] = name

\* The outcomes the ledger allows: with the node unreachable
\* client.NetworkID fails at the latest.
Feasible(steps, f) ==
  /\ f \in 0..Len(steps)
  /\ ~ledgerUp => f \in 1..StepOf(steps, "NetworkID err")

OutHash(n) == <<"out", n>>

\* Mint as it would be if a rejected submission were submitted again.
Mint_Retry(toAddr, amount, f, n) ==
  LET tx == [call |-> n, kind |-> "Mint", hash |-> OutHash(n), from |-> ZeroAddr,
             to |-> toAddr, amount |-> amount, accepted |-> f = 0]
  IN  IF f \in 1..(Len(MintSteps) - 1)
        THEN [hash |-> NoHash, err |-> MintSteps[f], sent |-> <<>>]
      ELSE IF f = Len(MintSteps)
        THEN [hash |-> NoHash, err |-> MintSteps[f], sent |-> <<tx, tx>>]
      ELSE [hash |-> OutHash(n), err |-> "", sent |-> <<tx>>]

\* Manager.Mint(toAddr, valueStr) as call number n, with amount what
\* amount.SetString(valueStr, 10) left in it: the hash and the error it
\* returns and the transactions it hands to the ledger.  The last step is the
\* one call of myAbi.Mint: it submits the transaction, which the node accepts
\* (f = 0) or rejects.
Mint(toAddr, amount, f, n) ==
  LET tx == [call |-> n, kind |-> "Mint", hash |-> OutHash(n), from |-> ZeroAddr,
             to |-> toAddr, amount |-> amount, accepted |-> f = 0]
  IN  IF f \in 1..(Len(MintSteps) - 1)
        THEN [hash |-> NoHash, err |-> MintSteps[f], sent |-> <<>>]
      ELSE IF f = Len(MintSteps)
        THEN [hash |-> NoHash, err |-> MintSteps[f], sent |-> <<tx>>]
      ELSE [hash |-> OutHash(n), err |-> "", sent |-> <<tx>>]

\* Manager.Transfer(toAddr, valueStr) as call number n.
Transfer(toAddr, amount, f, n) ==
  LET tx == [call |-> n, kind |-> "Transfer", hash |-> OutHash(n), from |-> ServiceAddr,
             to |-> toAddr, amount |-> amount, accepted |-> f = 0]
  IN  IF f \in 1..(Len(TransferSteps) - 1)
        THEN [hash |-> NoHash, err |-> TransferSteps[f], sent |-> <<>>]
      ELSE IF f = Len(TransferSteps)
        THEN [hash |-> NoHash, err |-> TransferSteps[f], sent |-> <<tx>>]
      ELSE [hash |-> OutHash(n), err |-> "", sent |-> <<tx>>]

Call(by, kind, to, value, req) ==
  [by |-> by, kind |-> kind, to |-> to, value |-> value, req |-> req]

\* ----------------------------------------------------------------- records
\* types.OrderState
Created == 0
WaitingPayment == 1
BuyGoods == 2
Done == 3

\* types.RechargeState
RechargeCreate == 0
RechargeDone == 1
RechargeRefund == 2

\* types.OrderRecord: the fields reconciliation reads and writes.  Value is
\* the amount its decimal string denotes.
OrderRecord(to, value, state) ==
  [To |-> to, Value |-> value, State |-> state, TxHash |-> NoHash, VpsID |-> 0, Msg |-> ""]

\* types.RechargeRecord, with the transfer that completed it.
RechargeRecord(to, value, state, hash) ==
  [To |-> to, Value |-> value, State |-> state, TxHash |-> hash]

Order(n) == <<"O", n>>
Recharge(n) == <<"R", n>>

OrderIds == { Order(1), Order(2) }

\* The records as one value: what the Reconciler owns.
Records(o, r, fl) == [orders |-> o, recharges |-> r, flagged |-> fl]

\* The transaction hashes records hold as their completing transaction.
Claimed(rs) ==
  {rs.orders[o].TxHash : o \in DOMAIN rs.orders}
    \cup {rs.recharges[r].TxHash : r \in DOMAIN rs.recharges}

\* The pending records a transfer event can be matched to: an order by the
\* address and amount it expects, a recharge by its address.
\* The matching as it would be if it looked at orders in any state.
MatchingOrders_AnyState(rs, e) ==
  {o \in DOMAIN rs.orders :
     /\ rs.orders[o].To = e.To
     /\ rs.orders[o].Value = e.Value}

MatchingOrders(rs, e) ==
  {o \in DOMAIN rs.orders :
     /\ rs.orders[o].State = WaitingPayment
     /\ rs.orders[o].To = e.To
     /\ rs.orders[o].Value = e.Value}

MatchingRecharges(rs, e) ==
  {r \in DOMAIN rs.recharges :
     /\ rs.recharges[r].State = RechargeCreate
     /\ rs.recharges[r].To = e.To}

\* The Reconciler as it would be without the rule that a transfer some record
\* claims is never applied again.
ApplyTransfer_NoIdCheck(rs, e) ==
  LET mo == MatchingOrders(rs, e)
      mr == MatchingRecharges(rs, e)
  IN  IF e.To = RechargeAddr
        THEN IF mr = {}
               THEN [rs EXCEPT !.recharges =
                       (<<"dup", Cardinality(DOMAIN @)>> :>
                          RechargeRecord(e.To, e.Value, RechargeRefund, e.ID)) @@ @]
             ELSE IF Cardinality(mr) = 1
               THEN LET r == CHOOSE x \in mr : TRUE
                    IN  [rs EXCEPT !.recharges[r].State = RechargeDone,
                                   !.recharges[r].Value = e.Value,
                                   !.recharges[r].TxHash = e.ID]
             ELSE [rs EXCEPT !.flagged = @ \cup {e.ID}]
      ELSE IF mo = {} THEN rs
      ELSE IF Cardinality(mo) = 1
        THEN LET o == CHOOSE x \in mo : TRUE
             IN  [rs EXCEPT !.orders[o].State = BuyGoods,
                            !.orders[o].TxHash = e.ID]
      ELSE [rs EXCEPT !.flagged = @ \cup {e.ID}]

\* The Reconciler as it would be if a transfer that matches several pending
\* orders credited each of them.
ApplyTransfer_CreditAll(rs, e) ==
  LET mo == MatchingOrders(rs, e)
  IN  IF e.ID \in Claimed(rs) \/ e.To = RechargeAddr THEN rs
      ELSE [rs EXCEPT !.orders =
              [o \in DOMAIN @ |->
                 IF o \in mo THEN [@[o] EXCEPT !.State = BuyGoods, !.TxHash = e.ID]
                             ELSE @[o]]]

\* The Reconciler applies transfer event e (spec.md 4.4).  A transfer some
\* record already claims is never applied again.  A transfer to a recharge
\* address completes the one pending recharge of that address, and is
\* recorded for refund when there is none.  A transfer that matches one
\* pending order moves it to BuyGoods.  A transfer that matches several
\* pending records is set aside for manual review.
ApplyTransfer(rs, e) ==
  LET mo == MatchingOrders(rs, e)
      mr == MatchingRecharges(rs, e)
  IN  IF e.ID \in Claimed(rs) THEN rs
      ELSE IF e.To = RechargeAddr
        THEN IF mr = {}
               THEN [rs EXCEPT !.recharges =
                       @ @@ (e.ID :> RechargeRecord(e.To, e.Value, RechargeRefund, e.ID))]
             ELSE IF Cardinality(mr) = 1
               THEN LET r == CHOOSE x \in mr : TRUE
                    IN  [rs EXCEPT !.recharges[r].State = RechargeDone,
                                   !.recharges[r].Value = e.Value,
                                   !.recharges[r].TxHash = e.ID]
             ELSE [rs EXCEPT !.flagged = @ \cup {e.ID}]
      ELSE IF mo = {} THEN rs
      ELSE IF Cardinality(mo) = 1
        THEN LET o == CHOOSE x \in mo : TRUE
             IN  [rs EXCEPT !.orders[o].State = BuyGoods,
                            !.orders[o].TxHash = e.ID]
      ELSE [rs EXCEPT !.flagged = @ \cup {e.ID}]

\* A retraction of transfer id as it reaches the Reconciler: a TransferEvent
\* with removed = true (spec.md 3).
Retraction(id) ==
  [ID |-> id, From |-> "", To |-> "", Value |-> Zero, by |-> "watcher", removed |-> TRUE]

IsRetraction(m) == "removed" \in DOMAIN m /\ m.removed

\* The Reconciler applies the retraction of transfer id (spec.md 7 and 8): the
\* record the transfer funded goes back to its state before the credit, a
\* paid order to WaitingPayment and a completed recharge to Create, and its
\* hash is cleared.  A provisioned order (Done) and a recharge set for refund
\* are terminal and stay; an id no record claims changes nothing.
ApplyRetraction(rs, id) ==
  [rs EXCEPT
     !.orders =
       [o \in DOMAIN @ |->
          IF @[o].TxHash = id /\ @[o].State = BuyGoods
            THEN [@[o] EXCEPT !.State = WaitingPayment, !.TxHash = NoHash]
            ELSE @[o]],
     !.recharges =
       [r \in DOMAIN @ |->
          IF @[r].TxHash = id /\ @[r].State = RechargeDone
            THEN [@[r] EXCEPT !.State = RechargeCreate, !.TxHash = NoHash, !.Value = Zero]
            ELSE @[r]]]

\* The Reconciler applies one message of the transfer-watch topic.
Apply(rs, m) ==
  IF IsRetraction(m) THEN ApplyRetraction(rs, m.ID) ELSE ApplyTransfer(rs, m)

\* Applying a sequence of events in order.
RECURSIVE ApplyAll(_, _)
ApplyAll(rs, es) ==
  IF es = << >> THEN rs ELSE ApplyAll(ApplyTransfer(rs, Head(es)), Tail(es))

\* -------------------------------------------------------------------- Init
\* NewManager has returned: both goroutines are started, neither has run.
Init ==
  /\ ledgerUp \in BOOLEAN
  /\ ops = 0
  /\ chain = << >>
  /\ stream = << >>
  /\ wpc = "dial"
  /\ wret = ""
  /\ sub = "none"
  /\ recvLog = << >>
  /\ unreleased = 0
  /\ watchBus = << >>
  /\ reqChan = << >>
  /\ repBus = << >>
  /\ nreq = 0
  /\ dropped = {}
  /\ lpc = "sub"
  /\ ltr = NoReq
  /\ lres = NoRes
  /\ consumed = << >>
  /\ inflight = {}
  /\ calls = << >>
  /\ submitted = << >>
  /\ cret = NoRet
  /\ crashed = FALSE
  /\ \E v \in ChainAmounts :
       orders = [o \in OrderIds |->
                  OrderRecord(PayAddr, IF o = Order(1) THEN Num(0, 1) ELSE v, WaitingPayment)]
  /\ recharges = (Recharge(1) :> RechargeRecord(RechargeAddr, Zero, RechargeCreate, NoHash))
  /\ flagged = {}
  /\ rpos = 0

\* ------------------------------------------------------- the ledger (environment)
\* A panic in any goroutine ends the process and every task in it.
Running == ~crashed

\* An operation the environment starts.
Op ==
  /\ ops < MaxOps
  /\ ops' = ops + 1

\* What the live subscription, if any, is handed when the chain emits a log.
Emit(raw) == IF sub = "live" THEN Append(stream, raw) ELSE stream

\* The node becomes unreachable: a live subscription's stream dies with an
\* error on sub.Err(), and what it had queued is gone.
LedgerDown ==
  /\ Op
  /\ ledgerUp
  /\ ledgerUp' = FALSE
  /\ sub' = IF sub = "live" THEN "failed" ELSE sub
  /\ stream' = << >>
  /\ UNCHANGED <<chain, wpc, wret, recvLog, unreleased, busVars, loopVars, callVars, crashed, recVars>>

LedgerUp ==
  /\ ~ledgerUp
  /\ ledgerUp' = TRUE
  /\ UNCHANGED <<ops, chain, stream, watcherVars, busVars, loopVars,
                 callVars, crashed, recVars>>

\* A user's transfer on the tracked contract.
ChainTransfer(id, from, to, value) ==
  /\ Op
  /\ id = UserTx(Cardinality({h \in DOMAIN chain : h[1] = "tx"}) + 1)
  /\ LET t == [from |-> from, to |-> to, value |-> value, removed |-> FALSE]
     IN  /\ chain' = chain @@ (id :> t)
         /\ stream' = Emit(Raw(id, t, FALSE))
  /\ UNCHANGED <<ledgerUp, watcherVars, busVars, loopVars, callVars,
                 crashed, recVars>>

\* A transaction the node accepted from Mint or Transfer is included in a block.
ChainConfirm(i) ==
  /\ Op
  /\ i \in 1..Len(submitted)
  /\ submitted[i].accepted
  /\ submitted[i].hash \notin DOMAIN chain
  /\ LET x == submitted[i]
         t == [from |-> x.from, to |-> x.to, value |-> x.amount, removed |-> FALSE]
     IN  /\ chain' = chain @@ (x.hash :> t)
         /\ stream' = Emit(Raw(x.hash, t, FALSE))
  /\ UNCHANGED <<ledgerUp, watcherVars, busVars, loopVars, callVars,
                 crashed, recVars>>

\* The block of a transfer is reorganised away: its log is sent again with
\* removed = true.
ChainReorg(id) ==
  /\ Op
  /\ id \in DOMAIN chain
  /\ ~chain[id].removed
  /\ chain' = [chain EXCEPT ![id].removed = TRUE]
  /\ stream' = Emit(Raw(id, chain[id], TRUE))
  /\ UNCHANGED <<ledgerUp, watcherVars, busVars, loopVars, callVars,
                 crashed, recVars>>

\* ------------------------------------------------ Manager.watchTransactions
Return(err) ==
  /\ wpc' = "returned"
  /\ wret' = err

\* ethclient.Dial(m.cfg.LotusWsAddr)
WatcherDial ==
  /\ Running
  /\ wpc = "dial"
  /\ IF ledgerUp THEN wpc' = "newabi" /\ wret' = wret
                 ELSE Return("Dial err")
  /\ UNCHANGED <<ops, ledgerVars, sub, recvLog, unreleased, busVars, loopVars, callVars, crashed, recVars>>

\* fvm.NewAbi(tokenAddress, client)
WatcherNewAbi(ok) ==
  /\ Running
  /\ wpc = "newabi"
  /\ IF ok THEN wpc' = "watch" /\ wret' = wret
           ELSE Return("NewAbi err")
  /\ UNCHANGED <<ops, ledgerVars, sub, recvLog, unreleased, busVars, loopVars, callVars, crashed, recVars>>

\* myAbi.WatchTransfer(nil, sink, nil, nil): a subscription, or an error when
\* the node cannot be reached.
WatchTransfer == IF ledgerUp THEN "live" ELSE "none"

\* sub, err := myAbi.WatchTransfer(...) before the loop
WatcherWatch ==
  /\ Running
  /\ wpc = "watch"
  /\ sub' = WatchTransfer
  /\ IF sub' = "live" THEN wpc' = "loop" /\ wret' = wret
                      ELSE Return("WatchTransfer err")
  /\ unreleased' = unreleased + (IF sub' = "live" THEN 1 ELSE 0)
  /\ UNCHANGED <<ops, ledgerVars, recvLog, busVars, loopVars, callVars, crashed, recVars>>

\* case err := <-sub.Err(): resubscribe, and return when that fails.
WatcherErr ==
  /\ Running
  /\ wpc = "loop"
  /\ sub = "failed"
  /\ sub' = WatchTransfer
  /\ IF sub' = "live" THEN wpc' = wpc /\ wret' = wret
                      ELSE Return("Transfer err")
  /\ unreleased' = unreleased + (IF sub' = "live" THEN 1 ELSE 0)
  /\ UNCHANGED <<ops, ledgerVars, recvLog, busVars, loopVars, callVars, crashed, recVars>>

\* What the watcher publishes for the raw transfer tr.
WatcherPub(tr) ==
  IF ~tr.removed
    THEN <<FvmTransferWatch(tr.id, tr.from, tr.to, Int64(tr.value), "watcher")>>
    ELSE << >>

\* case tr := <-sink
WatcherRecv ==
  /\ Running
  /\ wpc = "loop"
  /\ stream # << >>
  /\ LET tr == Head(stream)
     IN  /\ recvLog' = Append(recvLog, tr)
         /\ watchBus' = watchBus \o WatcherPub(tr)
  /\ stream' = Tail(stream)
  /\ UNCHANGED <<ops, ledgerUp, chain, wpc, wret, sub, unreleased, reqChan, repBus, dropped,
                 nreq, loopVars, callVars, crashed, recVars>>

\* ------------------------------------------------------------ the callers
\* Some task publishes a message on the transfer-request topic.  The bus
\* delivers it to the subscribers of the topic at that time: to subTransfer
\* once the loop has subscribed, to nobody before.
PublishReq(u) ==
  /\ Running
  /\ Op
  /\ nreq' = nreq + 1
  /\ reqChan' = IF lpc # "sub" THEN Append(reqChan, u) ELSE reqChan
  /\ dropped' = IF lpc = "sub" THEN dropped \cup {u} ELSE dropped
  /\ UNCHANGED <<ledgerVars, watcherVars, watchBus, repBus, loopVars, callVars,
                 crashed, recVars>>

\* --------------------------------------------------- Manager.subscribeEvents
\* subTransfer := m.notify.Sub(types.EventTransferReq.String())
LoopSub ==
  /\ Running
  /\ lpc = "sub"
  /\ lpc' = "recv"
  /\ UNCHANGED <<ops, ledgerVars, watcherVars, busVars, ltr, lres, consumed,
                 inflight, callVars, crashed, recVars>>

\* case u := <-subTransfer; tr := u.(*types.FvmTransferReq); the call of
\* m.Mint(tr.To, tr.Value) begins.  The type assertion panics on any other
\* payload, and a panic in a goroutine ends the process.
LoopRecv ==
  /\ Running
  /\ lpc = "recv"
  /\ reqChan # << >>
  /\ reqChan' = Tail(reqChan)
  /\ LET u == Head(reqChan)
     IN  IF u.kind = "req"
           THEN /\ ltr' = u
                /\ consumed' = Append(consumed, u)
                /\ calls' = Append(calls, Call("loop", "Mint", u.To, u.Value, u.ID))
                /\ inflight' = inflight \cup {Len(calls) + 1}
                /\ lpc' = "mint"
                /\ crashed' = crashed
           ELSE /\ crashed' = TRUE
                /\ UNCHANGED <<ltr, consumed, calls, inflight, lpc>>
  /\ UNCHANGED <<ops, ledgerVars, watcherVars, watchBus, repBus, nreq, dropped, lres,
                 submitted, cret, recVars>>

\* hash, err := m.Mint(tr.To, tr.Value) returns.
LoopMint(f) ==
  /\ Running
  /\ lpc = "mint"
  /\ Feasible(MintSteps, f)
  /\ \E amount \in Amounts(ltr.Value) :
       LET n == CHOOSE c \in inflight : TRUE
           r == Mint(ltr.To, amount, f, n)
       IN  /\ lres' = [hash |-> r.hash, err |-> r.err]
           /\ submitted' = submitted \o r.sent
           /\ inflight' = inflight \ {n}
  /\ lpc' = "pub"
  /\ UNCHANGED <<ops, ledgerVars, watcherVars, busVars, ltr, consumed, calls, cret,
                 crashed, recVars>>

\* The response as it would be if the request's ID were not copied into it.
LoopRep_NoID(tr, res) == FvmTransferRep(0, res.hash, res.err)

\* The response as it would be if the error of Mint were not copied into it.
LoopRep_DropErr(tr, res) == FvmTransferRep(tr.ID, res.hash, "")

\* The response the loop builds for request tr and the result of its Mint.
LoopRep(tr, res) == FvmTransferRep(tr.ID, res.hash, res.err)

\* m.notify.Pub(&types.FvmTransferRep{...}, types.EventTransferRep.String())
LoopPub ==
  /\ Running
  /\ lpc = "pub"
  /\ repBus' = Append(repBus, LoopRep(ltr, lres))
  /\ lpc' = "recv"
  /\ UNCHANGED <<ops, ledgerVars, watcherVars, watchBus, reqChan, nreq, dropped, ltr,
                 lres, consumed, inflight, callVars, crashed, recVars>>

\* ------------------------------------------- direct calls of Mint / Transfer
ApiMint(toAddr, valueStr, f) ==
  /\ Running
  /\ Op
  /\ Feasible(MintSteps, f)
  /\ \E amount \in Amounts(valueStr) :
       LET n == Len(calls) + 1
           r == Mint(toAddr, amount, f, n)
       IN  /\ calls' = Append(calls, Call("api", "Mint", toAddr, valueStr, 0))
           /\ submitted' = submitted \o r.sent
  /\ UNCHANGED <<cret, ledgerVars, watcherVars, busVars, loopVars, crashed, recVars>>

ApiTransfer(toAddr, valueStr, f) ==
  /\ Running
  /\ Op
  /\ Feasible(TransferSteps, f)
  /\ \E amount \in Amounts(valueStr) :
       LET n == Len(calls) + 1
           r == Transfer(toAddr, amount, f, n)
       IN  /\ calls' = Append(calls, Call("api", "Transfer", toAddr, valueStr, 0))
           /\ submitted' = submitted \o r.sent
  /\ UNCHANGED <<cret, ledgerVars, watcherVars, busVars, loopVars, crashed, recVars>>

\* ------------------------------------------------------ Manager.CheckMessage
\* The lookups of CheckMessage, in the order of the code; f is the first that
\* fails, 0 when none does.
CheckSteps == <<"EthGetMessageCidByTransactionHash", "ChainGetMessage", "StateSearchMsg">>

\* All three lookups succeed only for a transaction the reachable node has.
OnChain(tx) == tx = FailedTx \/ (tx \in DOMAIN chain /\ ~chain[tx].removed)

CheckFeasible(tx, f) ==
  /\ f \in 0..Len(CheckSteps)
  /\ f = 0 => ledgerUp /\ OnChain(tx)

\* info.Receipt.ExitCode
ExitCode(tx) == IF tx = FailedTx THEN 1 ELSE 0

\* msg.From, msg.To, msg.Value
Message(tx) == IF tx = FailedTx THEN NoTx ELSE chain[tx]

\* CheckMessage as it would be without the test of the exit code.
CheckPub_IgnoreExit(tx, f) ==
  IF f # 0 THEN << >>
  ELSE <<FvmTransferWatch(tx, Message(tx).from, Message(tx).to,
                          Int64(Message(tx).value), "check")>>

\* CheckMessage as it would be if it published the event twice.
CheckPub_Twice(tx, f) ==
  IF f = 0 /\ ExitCode(tx) = 0
    THEN <<FvmTransferWatch(tx, Message(tx).from, Message(tx).to,
                            Int64(Message(tx).value), "check"),
           FvmTransferWatch(tx, Message(tx).from, Message(tx).to,
                            Int64(Message(tx).value), "check")>>
    ELSE << >>

\* What CheckMessage(tx) publishes when its first failing lookup is f.
CheckPub(tx, f) ==
  IF f # 0 THEN << >>
  ELSE IF ExitCode(tx) = 0
    THEN <<FvmTransferWatch(tx, Message(tx).from, Message(tx).to,
                            Int64(Message(tx).value), "check")>>
    ELSE << >>

\* The error CheckMessage returns: that of the first lookup that fails, nil
\* ("") when none does, whatever the exit code.
CheckErr(f) == IF f = 0 THEN "" ELSE CheckSteps[f]

CheckMessage(tx, f) ==
  /\ Running
  /\ Op
  /\ CheckFeasible(tx, f)
  /\ watchBus' = watchBus \o CheckPub(tx, f)
  /\ cret' = [tx |-> tx, err |-> CheckErr(f)]
  /\ UNCHANGED <<ledgerVars, watcherVars, reqChan, repBus, nreq, dropped, loopVars,
                 calls, submitted, crashed, recVars>>

\* ------------------------------------------------------------ the Reconciler
\* The Reconciler consumes the next message of the transfer-watch topic.
ReconcilerStep ==
  /\ Running
  /\ rpos < Len(watchBus)
  /\ rpos' = rpos + 1
  /\ LET rs == Apply(Records(orders, recharges, flagged), watchBus[rpos + 1])
     IN  /\ orders' = rs.orders
         /\ recharges' = rs.recharges
         /\ flagged' = rs.flagged
  /\ UNCHANGED <<ops, ledgerVars, watcherVars, busVars, loopVars, callVars, crashed>>

\* The provisioning collaborator reports the instance of a paid order.
ProvisionOk(o) ==
  /\ Running
  /\ orders[o].State = BuyGoods
  /\ orders' = [orders EXCEPT ![o].State = Done, ![o].VpsID = 1]
  /\ UNCHANGED <<ops, ledgerVars, watcherVars, busVars, loopVars, callVars, crashed,
                 recharges, flagged, rpos>>

\* A failure as it would be handled if it sent the order back to be paid again.
ProvisionFail_Repay(o) ==
  /\ Running
  /\ orders[o].State = BuyGoods
  /\ orders' = [orders EXCEPT ![o].State = WaitingPayment, ![o].TxHash = NoHash,
                              ![o].Msg = "ProviderError"]
  /\ UNCHANGED <<ops, ledgerVars, watcherVars, busVars, loopVars, callVars, crashed,
                 recharges, flagged, rpos>>

\* The provisioning collaborator reports a failure.
ProvisionFail(o) ==
  /\ Running
  /\ orders[o].State = BuyGoods
  /\ orders' = [orders EXCEPT ![o].Msg = "ProviderError"]
  /\ UNCHANGED <<ops, ledgerVars, watcherVars, busVars, loopVars, callVars, crashed,
                 recharges, flagged, rpos>>

\* The hashes a caller may pass to CheckMessage.
TxIds == {UserTx(n) : n \in 1..MaxOps}

CheckTxs == TxIds \cup {FailedTx} \cup {OutHash(n) : n \in 1..Len(calls)}

Requests == {FvmTransferReq(nreq + 1, to, v) : to \in UserAddrs, v \in ValueStrs}

\* -------------------------------------------------------------------- Next
Next ==
  \/ LedgerDown
  \/ LedgerUp
  \/ \E id \in TxIds, from \in UserAddrs, to \in ToAddrs, value \in ChainAmounts :
       ChainTransfer(id, from, to, value)
  \/ \E i \in 1..Len(submitted) : ChainConfirm(i)
  \/ \E id \in DOMAIN chain : ChainReorg(id)
  \/ WatcherDial
  \/ \E ok \in BOOLEAN : WatcherNewAbi(ok)
  \/ WatcherWatch
  \/ WatcherErr
  \/ WatcherRecv
  \/ \E u \in Requests \cup {OtherPayload} : PublishReq(u)
  \/ LoopSub
  \/ LoopRecv
  \/ \E f \in 0..Len(MintSteps) : LoopMint(f)
  \/ LoopPub
  \/ \E to \in UserAddrs, v \in ValueStrs, f \in 0..Len(MintSteps) : ApiMint(to, v, f)
  \/ \E to \in UserAddrs, v \in ValueStrs, f \in 0..Len(TransferSteps) : ApiTransfer(to, v, f)
  \/ \E tx \in CheckTxs, f \in 0..Len(CheckSteps) : CheckMessage(tx, f)
  \/ ReconcilerStep
  \/ \E o \in OrderIds : ProvisionOk(o)
  \/ \E o \in OrderIds : ProvisionFail(o)

Spec == Init /\ [][Next]_vars

\* The goroutines are scheduled by the Go runtime: a goroutine that can take
\* a step eventually takes one.  Nothing is assumed of the environment.
WatcherNext ==
  WatcherDial \/ (\E ok \in BOOLEAN : WatcherNewAbi(ok)) \/ WatcherWatch \/ WatcherErr
    \/ WatcherRecv

LoopNext == LoopSub \/ LoopRecv \/ (\E f \in 0..Len(MintSteps) : LoopMint(f)) \/ LoopPub

FairSpec == Spec /\ WF_vars(WatcherNext) /\ WF_vars(LoopNext) /\ WF_vars(ReconcilerStep)

\* Direct calls of Mint and Transfer with any amount string, also those that
\* are no number, while the node comes and goes.
CallNext ==
  \/ LedgerDown
  \/ LedgerUp
  \/ \E to \in UserAddrs, v \in ValueStrs \cup BadStrs, f \in 0..Len(MintSteps) :
       ApiMint(to, v, f)
  \/ \E to \in UserAddrs, v \in ValueStrs \cup BadStrs, f \in 0..Len(TransferSteps) :
       ApiTransfer(to, v, f)

CallSpec == Init /\ [][CallNext]_vars

\* ================================================================ claims
\* The messages the watcher itself published on the transfer-watch topic.
ByWatcher(m) == m.by = "watcher"
WatcherMsgs == SelectSeq(watchBus, ByWatcher)

NotRemoved(tr) == ~tr.removed

\* C1: once the watcher is in its event loop it stays there: no subscription
\* error, and no failed resubscription, makes it leave the loop.
C1_WatcherNeverStops == [][wpc = "loop" => wpc' = "loop"]_vars

\* C2: when subscribing failed with a connection error (at start-up or after
\* a stream error) and the ledger is reachable from some point on, the
\* watcher eventually holds a working subscription, and keeps it (as long as
\* the process runs and the contract binding could be built).
C2_EventuallySubscribed ==
  ([](~crashed /\ wret # "NewAbi err") /\ <>[]ledgerUp)
    => <>[](wpc = "loop" /\ sub = "live")

\* C3: the messages the watcher published are, in order, exactly one per
\* raw transfer received with removed = false, with the id, from, to and
\* value of that raw transfer.
C3_PublishedAsReceived ==
  LET got == SelectSeq(recvLog, NotRemoved)
  IN  WatcherMsgs =
        [i \in 1..Len(got) |->
           FvmTransferWatch(got[i].id, got[i].from, got[i].to, got[i].value, "watcher")]

\* C4: for every raw transfer received with removed = true the watcher has
\* published a message of its own carrying that id: it has published as
\* many messages for the id as it has received raw transfers for it.
C4_RetractionPublished ==
  \A i \in 1..Len(recvLog) :
    recvLog[i].removed =>
      Cardinality({j \in 1..Len(WatcherMsgs) : WatcherMsgs[j].ID = recvLog[i].id})
        >= Cardinality({k \in 1..Len(recvLog) : recvLog[k].id = recvLog[i].id})

\* C5: the responses published are, in order, one per request consumed, each
\* with the ID of its request; only the request being served has no response
\* yet, so a response is published before the next request is consumed; and
\* at most one Mint started by the loop is in flight.
C5_OneResponsePerRequest ==
  /\ Len(repBus) = Len(consumed) - (IF lpc \in {"mint", "pub"} THEN 1 ELSE 0)
  /\ \A i \in 1..Len(repBus) : repBus[i].ID = consumed[i].ID
  /\ Cardinality(inflight) <= 1
  /\ inflight # {} => lpc = "mint"

\* Two requests were consumed and answered, the first after a failed Mint,
\* the second after a successful one.
C5_Witness ==
  /\ Len(consumed) = 2 /\ Len(repBus) = 2
  /\ repBus[1].Msg # "" /\ repBus[2].Msg = ""

\* C6: no transaction with amount zero is handed to the ledger, whether the
\* call comes from a caller of Mint/Transfer or from the request loop.
C6_NoZeroValueSubmitted ==
  \A i \in 1..Len(submitted) : submitted[i].amount # Zero

\* The calls of Mint the request loop made.
ByLoop(c) == c.by = "loop"

\* C7: each call of Mint or Transfer hands at most one transaction to the
\* ledger, and the loop has called Mint exactly once for each request it
\* consumed, in order, whatever the calls returned.
C7_NoRetry ==
  /\ \A n \in 1..Len(calls) :
       Cardinality({i \in 1..Len(submitted) : submitted[i].call = n}) <= 1
  /\ LET lc == SelectSeq(calls, ByLoop)
     IN  /\ Len(lc) = Len(consumed)
         /\ \A i \in 1..Len(lc) :
              /\ lc[i].req = consumed[i].ID
              /\ lc[i].kind = "Mint"
              /\ lc[i].to = consumed[i].To
              /\ lc[i].value = consumed[i].Value

\* The node rejected the transaction of a Mint the loop called, the loop has
\* published the response and waits for the next request.
C7_Witness ==
  /\ lpc = "recv"
  /\ \E i \in 1..Len(submitted) :
       /\ ~submitted[i].accepted
       /\ calls[submitted[i].call].by = "loop"
       /\ Len(repBus) = Len(consumed)

\* A step of a call of Mint or Transfer: the call begins, the transaction is
\* handed to the ledger, the call returns.
MintOrTransferStep ==
  calls' # calls \/ submitted' # submitted \/ inflight' # inflight

\* Such a step publishes nothing on the transfer-watch topic, changes no
\* record, and the hash it returns is of a transaction not yet on chain.
C8_Frame ==
  MintOrTransferStep =>
    /\ UNCHANGED <<watchBus, orders, recharges, flagged>>
    /\ \A i \in (Len(submitted) + 1)..Len(submitted') :
         submitted'[i].hash \notin DOMAIN chain'

\* A transfer-watch message is published only by the watcher for a raw
\* transfer it received, or by CheckMessage for a transaction on chain with
\* exit code 0; one for a hash Mint/Transfer returned, only for a transaction
\* the node accepted.
C8_Provenance ==
  \A j \in 1..Len(watchBus) :
    LET m == watchBus[j]
    IN  /\ \/ /\ m.by = "watcher"
              /\ \E k \in 1..Len(recvLog) : recvLog[k].id = m.ID /\ ~recvLog[k].removed
           \/ /\ m.by = "check"
              /\ m.ID \in DOMAIN chain
              /\ ExitCode(m.ID) = 0
        /\ m.ID[1] = "out" =>
             \E i \in 1..Len(submitted) : submitted[i].hash = m.ID /\ submitted[i].accepted

\* The Reconciler has consumed a transfer-watch message with id h.
Consumed(h) == \E j \in 1..rpos : watchBus[j].ID = h

\* A record holds a hash, and has left its pending state, only after the
\* Reconciler has consumed a message with that hash.
C8_RecordsWait ==
  /\ \A o \in DOMAIN orders :
       /\ orders[o].State \in {BuyGoods, Done} => orders[o].TxHash # NoHash
       /\ orders[o].TxHash # NoHash => Consumed(orders[o].TxHash)
  /\ \A r \in DOMAIN recharges :
       /\ recharges[r].State = RechargeDone => recharges[r].TxHash # NoHash
       /\ recharges[r].TxHash # NoHash => Consumed(recharges[r].TxHash)

\* C8: a step of Mint or Transfer publishes nothing on the transfer-watch
\* topic and changes no record, and the hash it returns is of a transaction
\* not yet on chain; a transfer-watch message is published only by the
\* watcher for a raw transfer it received, or by CheckMessage for a
\* transaction on chain with exit code 0; and a record holds a hash, and is
\* Done, only after the Reconciler has consumed a message with that hash.
C8_HashIsNoConfirmation ==
  [](C8_Provenance /\ C8_RecordsWait) /\ [][C8_Frame]_vars

\* Mint returned a hash, the transaction was included later, and the watcher
\* has published the transfer-watch message for it.
C8_Witness ==
  \E j \in 1..Len(watchBus) :
    /\ watchBus[j].by = "watcher"
    /\ watchBus[j].ID[1] = "out"
    /\ \E i \in 1..Len(submitted) :
         submitted[i].hash = watchBus[j].ID /\ submitted[i].kind = "Mint"

\* A transfer-watch message whose id the Reconciler has consumed before
\* changes no record.
C9_DuplicateFrame ==
  (rpos' = rpos + 1 /\ \E j \in 1..rpos : watchBus[j].ID = watchBus[rpos + 1].ID)
    => UNCHANGED <<orders, recharges, flagged>>

\* Applying all the messages consumed so far once more leaves every record
\* as it is.
C9_ReplayFixed ==
  ApplyAll(Records(orders, recharges, flagged), SubSeq(watchBus, 1, rpos))
    = Records(orders, recharges, flagged)

\* C9: a transfer-watch message whose id the Reconciler has consumed before
\* changes no record; and applying all the messages consumed so far once more
\* leaves every record as it is.
C9_IdempotentById == []C9_ReplayFixed /\ [][C9_DuplicateFrame]_vars

\* The watcher and CheckMessage each published a message for the same
\* transaction, the Reconciler consumed both, and a record holds its hash.
C9_Witness ==
  /\ rpos = 2
  /\ watchBus[1].ID = watchBus[2].ID
  /\ watchBus[1].by # watchBus[2].by
  /\ watchBus[1].ID \in Claimed(Records(orders, recharges, flagged))

\* Every record's completing transaction, NoHash while it has none.
RecordHashes ==
  [k \in (DOMAIN orders) \cup (DOMAIN recharges) |->
     IF k \in DOMAIN orders THEN orders[k].TxHash ELSE recharges[k].TxHash]

\* C10: no two records hold the same transaction hash as their completing
\* transaction, also when two pending orders expect the same amount at the
\* same address.
C10_AtMostOnceCredit ==
  \A a, b \in DOMAIN RecordHashes :
    (a # b /\ RecordHashes[a] = RecordHashes[b]) => RecordHashes[a] = NoHash

\* Two pending orders expect the same amount at the same address, and the
\* Reconciler has consumed a transfer of that amount to that address.
C10_Witness ==
  /\ orders[Order(1)].Value = orders[Order(2)].Value
  /\ orders[Order(1)].To = orders[Order(2)].To
  /\ \E j \in 1..rpos :
       watchBus[j].To = orders[Order(1)].To /\ watchBus[j].Value = orders[Order(1)].Value

\* The watcher has received the retraction of transfer h: a raw transfer with
\* that hash and removed = true.
Retracted(h) == \E k \in 1..Len(recvLog) : recvLog[k].id = h /\ recvLog[k].removed

AllConsumed == rpos = Len(watchBus)

\* A retraction the watcher receives for a transfer no record holds changes
\* no record.
C12_NoOp ==
  (/\ recvLog' # recvLog
   /\ recvLog'[Len(recvLog')].removed
   /\ recvLog'[Len(recvLog')].id \notin Claimed(Records(orders, recharges, flagged)))
    => UNCHANGED <<orders, recharges, flagged>>

\* Once the watcher has received the retraction of a transfer and the
\* Reconciler has consumed all that was published, an order that transfer
\* paid is either provisioned (Done, terminal) or no longer holds it: no order
\* still in BuyGoods holds a retracted transfer.
C12_Reverted ==
  AllConsumed =>
    \A o \in DOMAIN orders :
      (orders[o].State = BuyGoods) => ~Retracted(orders[o].TxHash)

\* C12: a retraction of a transfer no record holds changes no record; after
\* the retraction of a transfer that paid an order not yet Done, once the
\* Reconciler has consumed all that was published, the order is back in
\* WaitingPayment with its txHash cleared, so no order in BuyGoods holds a
\* retracted transfer.
C12_RetractionReverts == []C12_Reverted /\ [][C12_NoOp]_vars

\* C13: after the watcher has received the retraction of the transfer that
\* completed a recharge, once the Reconciler has consumed all that was
\* published, the recharge is no longer Done on that transfer: it is back in
\* Create with no hash, where a later transfer to its address matches it.
C13_RechargeReverted ==
  AllConsumed =>
    \A r \in DOMAIN recharges :
      /\ recharges[r].State = RechargeDone => ~Retracted(recharges[r].TxHash)
      /\ recharges[r].State = RechargeCreate => recharges[r].TxHash = NoHash

\* Transfer event e is for what order o expects: its address and its amount.
Expects(o, e) == e.To = orders[o].To /\ e.Value = orders[o].Value

\* The Reconciler consumes an event for what a pending order expects: the
\* order moves to BuyGoods with the event's id as its txHash.
C14_PaidAny ==
  rpos' = rpos + 1 =>
    \A o \in DOMAIN orders :
      (orders[o].State = WaitingPayment /\ Expects(o, watchBus[rpos + 1]))
        => orders'[o] = [orders[o] EXCEPT !.State = BuyGoods,
                                          !.TxHash = watchBus[rpos + 1].ID]

\* The same, for an event that is for what no other pending order expects.
C14_PaidUnique ==
  rpos' = rpos + 1 =>
    \A o \in DOMAIN orders :
      (/\ orders[o].State = WaitingPayment
       /\ Expects(o, watchBus[rpos + 1])
       /\ \A p \in DOMAIN orders \ {o} :
            ~(orders[p].State = WaitingPayment /\ Expects(p, watchBus[rpos + 1])))
        => orders'[o] = [orders[o] EXCEPT !.State = BuyGoods,
                                          !.TxHash = watchBus[rpos + 1].ID]

\* An order in BuyGoods changes only by a provisioning result: success moves
\* it to Done and sets vpsID, failure leaves it in BuyGoods and sets msg.  It
\* keeps its txHash, never goes back to WaitingPayment, and a failure starts
\* no Mint or Transfer.
C14_Provision ==
  \A o \in DOMAIN orders :
    orders[o].State = BuyGoods =>
      \/ orders'[o] = orders[o]
      \/ /\ orders'[o].State = Done
         /\ orders'[o].VpsID # 0
         /\ orders'[o] = [orders[o] EXCEPT !.State = Done, !.VpsID = orders'[o].VpsID]
      \/ /\ orders'[o].Msg # ""
         /\ orders'[o] = [orders[o] EXCEPT !.Msg = orders'[o].Msg]
         /\ UNCHANGED <<calls, submitted>>

\* An order is Done only with the transfer that paid it and its instance.
C14_DoneHasVps ==
  \A o \in DOMAIN orders :
    orders[o].State = Done => orders[o].VpsID # 0 /\ orders[o].TxHash # NoHash

LoopCallNo(i) ==
  CHOOSE n \in 1..Len(calls) : calls[n].by = "loop" /\ calls[n].req = consumed[i].ID

\* The transactions call n handed to the ledger, and those the node accepted.
SentBy(n) == {k \in 1..Len(submitted) : submitted[k].call = n}
AcceptedOf(n) == {k \in SentBy(n) : submitted[k].accepted}

\* C15: each response published reports the outcome of the Mint called for
\* its request.  When the node accepted the transaction of that call, TxHash
\* is the hash of the submitted transaction and Msg is empty; otherwise
\* TxHash is empty and Msg holds the error: "Mint err" when the node rejected
\* the transaction, the error of the failed step when none was submitted.
C15_ResponseReportsMint ==
  \A i \in 1..Len(repBus) :
    LET n == LoopCallNo(i)
    IN  IF AcceptedOf(n) # {}
          THEN /\ repBus[i].TxHash = submitted[CHOOSE k \in AcceptedOf(n) : TRUE].hash
               /\ repBus[i].Msg = ""
          ELSE /\ repBus[i].TxHash = NoHash
               /\ repBus[i].Msg # ""
               /\ IF SentBy(n) # {}
                    THEN repBus[i].Msg = "Mint err"
                    ELSE \E f \in 1..(Len(MintSteps) - 1) : repBus[i].Msg = MintSteps[f]

\* A response for a Mint whose transaction the node rejected and a response
\* for a Mint that succeeded have been published.
C15_Witness ==
  /\ \E i \in 1..Len(repBus) : repBus[i].Msg = "Mint err" /\ repBus[i].TxHash = NoHash
  /\ \E i \in 1..Len(repBus) : repBus[i].Msg = "" /\ repBus[i].TxHash # NoHash

\* A call CheckMessage(tx) whose first failing lookup is f (0: none fails).
\* When no lookup fails and the exit code is 0 it publishes one event, for
\* tx, with the sender and the receiver of the message, and returns nil.
\* When a lookup fails it publishes nothing and returns that lookup's error.
\* When the exit code is not 0 it publishes nothing and returns nil.
C16_Call(tx, f) ==
  CheckMessage(tx, f) =>
    /\ cret'.tx = tx
    /\ (f = 0 /\ ExitCode(tx) = 0) =>
         /\ Len(watchBus') = Len(watchBus) + 1
         /\ SubSeq(watchBus', 1, Len(watchBus)) = watchBus
         /\ LET m == watchBus'[Len(watchBus')]
            IN  /\ m.ID = tx /\ m.by = "check"
                /\ m.From = Message(tx).from /\ m.To = Message(tx).to
         /\ cret'.err = ""
    /\ (f = 0 /\ ExitCode(tx) # 0) => (watchBus' = watchBus /\ cret'.err = "")
    /\ f # 0 => (watchBus' = watchBus /\ cret'.err = CheckSteps[f])

\* C16: every call of CheckMessage publishes one transfer-watch event for
\* its transaction if all three lookups succeed and the exit code is 0, and
\* nothing otherwise; it returns the error of the lookup that failed, and nil
\* when none failed, also when the exit code is not 0.
C16_CheckMessage ==
  [][\A tx \in CheckTxs, f \in 0..Len(CheckSteps) : C16_Call(tx, f)]_vars

\* The last call of CheckMessage found its transaction executed with exit
\* code 0, published the event for it and returned nil.
C16_Witness ==
  /\ cret.tx # NoHash /\ cret.err = "" /\ ExitCode(cret.tx) = 0
  /\ watchBus # << >>
  /\ watchBus[Len(watchBus)].by = "check"
  /\ watchBus[Len(watchBus)].ID = cret.tx

\* C17: at any time at most one subscription that WatchTransfer returned to
\* the watcher has not been unsubscribed: the failed one is released before
\* or when the fresh one is acquired.
C17_OneHandle == unreleased <= 1

\* Transfer id is on chain and its block has not been reorganised away.
Live(id) == id \in DOMAIN chain /\ ~chain[id].removed

\* A transfer-watch message for transfer id has been published.
Published(id) == \E j \in 1..Len(watchBus) : watchBus[j].ID = id

\* The hashes of the transfers that can be on chain.
ChainIds == TxIds \cup {OutHash(n) : n \in 1..MaxOps}

\* C18: every transfer made on chain after the watcher first subscribed is
\* eventually published on transfer-watch, unless its block is reorganised
\* away or the process or the watcher has ended first; also a transfer made
\* between a failure of the stream and the resubscription.
C18_EveryTransferPublished ==
  \A id \in ChainIds :
    []((unreleased >= 1 /\ id \notin DOMAIN chain)
         => [](Live(id) => <>(Published(id) \/ ~Live(id) \/ crashed \/ wpc = "returned")))

\* The well-formed request with ID n has been published on transfer-request.
PublishedReq(n) ==
  \/ \E u \in dropped : u.kind = "req" /\ u.ID = n
  \/ \E i \in 1..Len(reqChan) : reqChan[i].kind = "req" /\ reqChan[i].ID = n
  \/ \E i \in 1..Len(consumed) : consumed[i].ID = n

\* A response with ID n has been published on transfer-response.
Answered(n) == \E i \in 1..Len(repBus) : repBus[i].ID = n

\* C19: every well-formed request published on transfer-request after
\* NewManager has returned is eventually answered with a response, as long as
\* the process runs (every call of Mint returns: the loop is weakly fair).
C19_EveryRequestAnswered ==
  \A n \in 1..MaxOps : [](PublishedReq(n) => <>(Answered(n) \/ crashed))

\* C20: every message published on transfer-watch, by the watcher or by
\* CheckMessage, carries as Value the amount of the transfer on chain.
C20_ValueAsOnChain ==
  \A j \in 1..Len(watchBus) :
    watchBus[j].ID \in DOMAIN chain => watchBus[j].Value = chain[watchBus[j].ID].value

\* C21: a call of Mint or Transfer with an amount string that is no base-10
\* integer hands no transaction to the ledger, and every transaction a call
\* hands to the ledger carries the amount its string denotes.
C21_OnlyParsedAmounts ==
  \A n \in 1..Len(calls) :
    /\ ~SetStringOk(calls[n].value) => SentBy(n) = {}
    /\ SetStringOk(calls[n].value) =>
         \A k \in SentBy(n) : submitted[k].amount = SetString(calls[n].value)

\* C22: when the loop receives from its subscription a payload that is not a
\* transfer request, the process does not crash and the loop goes on to
\* receive the next message.
C22_LoopSurvives ==
  [][(/\ lpc = "recv"
      /\ reqChan # << >>
      /\ reqChan' = Tail(reqChan)
      /\ Head(reqChan).kind # "req")
       => (~crashed' /\ lpc' = "recv")]_vars

====
